---- MODULE Spec2Model ----
(***************************************************************************)
(* Model of query-tls (src/index.js, the current version of the file:      *)
(* lines 223-476): the rule catalog loader getRules, the allow-lists       *)
(* ENROLL_SECRETS and NODE_KEYS with enroll() and the checks of log(), the *)
(* record partitioner parseResult with its column normalization and        *)
(* getDay, the rule evaluator re.apply, and the two asynchronous consumers *)
(* of the partitioned dataset, processRules (SNS notifications) and        *)
(* uploadToS3 (S3 objects), as run by log().                               *)
(*                                                                         *)
(* JavaScript values are records [t, s, n]: t is the value's type tag      *)
(* (typeof, with "null" told apart), s the characters of a string (or the  *)
(* JSON text a parsed structure came from), n the number of a number       *)
(* (1/0 for a boolean).  Strings are sequences of one-character strings    *)
(* so that charAt and length are computed as the code computes them.       *)
(***************************************************************************)
EXTENDS Integers, Sequences, FiniteSets, TLC

VARIABLES docs, RULES, body, pc, data, err, matches, pubs, sns, ups, s3,
          env, ENROLL_SECRETS, NODE_KEYS, issued, node_key, log_type, response

\* the module's allow-lists and the node keys enroll() has handed out
auth == <<env, ENROLL_SECRETS, NODE_KEYS, issued>>
\* body.node_key and body.log_type of the log request
req == <<node_key, log_type>>

vars == <<docs, RULES, body, pc, data, err, matches, pubs, sns, ups, s3,
          auth, req, response>>

----------------------------------------------------------------------------
(* Bounds of the model *)

\* longest batch of records in one log request
MaxRecords == 2
\* most rule groups over all the rule documents of the rules directory
MaxGroups == 2

----------------------------------------------------------------------------
(* JavaScript values *)

Str(cs) == [t |-> "string", s |-> cs, n |-> 0]
Num(k) == [t |-> "number", s |-> <<>>, n |-> k]
Bool(b) == [t |-> "boolean", s |-> <<>>, n |-> IF b THEN 1 ELSE 0]
Undefined == [t |-> "undefined", s |-> <<>>, n |-> 0]
Null == [t |-> "null", s |-> <<>>, n |-> 0]
\* the object or array JSON.parse builds from the text cs
Parsed(cs) == [t |-> "object", s |-> cs, n |-> 0]

\* {} : an object with no keys
EmptyObj == [k \in {} |-> 0]
\* obj[k] = v
Put(obj, k, v) == [x \in DOMAIN obj \cup {k} |-> IF x = k THEN v ELSE obj[x]]

\* JavaScript's ToBoolean
Truthy(v) ==
  CASE v.t = "string" -> v.s # <<>>
    [] v.t = "number" -> v.n # 0
    [] v.t = "boolean" -> v.n = 1
    [] v.t = "object" -> TRUE
    [] OTHER -> FALSE

\* String.prototype.charAt: "" outside the string
charAt(v, i) == IF i >= 0 /\ i < Len(v.s) THEN v.s[i + 1] ELSE ""

Digits == {"0", "1", "2", "3", "4", "5", "6", "7", "8", "9"}
DigitVal(c) == CHOOSE d \in 0..9 : ToString(d) = c

RECURSIVE DecVal(_)
DecVal(cs) == IF cs = <<>> THEN 0
              ELSE 10 * DecVal(SubSeq(cs, 1, Len(cs) - 1)) + DigitVal(cs[Len(cs)])

\* JavaScript's ToNumber: [nan, n]
ToNumber(v) ==
  CASE v.t = "number" -> [nan |-> FALSE, n |-> v.n]
    [] v.t = "boolean" -> [nan |-> FALSE, n |-> v.n]
    [] v.t = "null" -> [nan |-> FALSE, n |-> 0]
    [] v.t = "string" ->
         IF \A j \in 1..Len(v.s) : v.s[j] \in Digits
         THEN [nan |-> FALSE, n |-> DecVal(v.s)]
         ELSE [nan |-> TRUE, n |-> 0]
    [] OTHER -> [nan |-> TRUE, n |-> 0]

----------------------------------------------------------------------------
(* JSON.parse, over the texts of the model's alphabet: {} , arrays of      *)
(* values separated by commas, and unsigned integers without a leading     *)
(* zero.  An object with members needs quotes and a colon, which the       *)
(* alphabet lacks.                                                         *)

RECURSIVE skipDigits(_, _)
skipDigits(cs, p) == IF p <= Len(cs) /\ cs[p] \in Digits THEN skipDigits(cs, p + 1) ELSE p

RECURSIVE parseValue(_, _), parseElements(_, _)
\* the position after the JSON value that starts at p, or 0: a syntax error
parseValue(cs, p) ==
  IF p > Len(cs) THEN 0
  ELSE IF cs[p] = "{" THEN (IF p + 1 <= Len(cs) /\ cs[p + 1] = "}" THEN p + 2 ELSE 0)
  ELSE IF cs[p] = "[" THEN (IF p + 1 <= Len(cs) /\ cs[p + 1] = "]" THEN p + 2
                            ELSE parseElements(cs, p + 1))
  ELSE IF cs[p] = "0" THEN p + 1
  ELSE IF cs[p] \in Digits THEN skipDigits(cs, p)
  ELSE 0
parseElements(cs, p) ==
  LET q == parseValue(cs, p)
  IN IF q = 0 \/ q > Len(cs) THEN 0
     ELSE IF cs[q] = "]" THEN q + 1
     ELSE IF cs[q] = "," THEN parseElements(cs, q + 1)
     ELSE 0

\* JSON.parse(text): the parsed structure, or a SyntaxError
JSONparse(cs) ==
  IF parseValue(cs, 1) = Len(cs) + 1
  THEN [err |-> "none", v |-> Parsed(cs)]
  ELSE [err |-> "SyntaxError", v |-> Undefined]

----------------------------------------------------------------------------
(* parseResult: column normalization (index.js 380-389) *)

\* value && typeof value === 'string' && value.length > 1
\*   && (value.charAt(0) === '{' && value.charAt(value.length - 1) === '}')
leftOperand(value) ==
  /\ Truthy(value)
  /\ value.t = "string"
  /\ Len(value.s) > 1
  /\ charAt(value, 0) = "{" /\ charAt(value, Len(value.s) - 1) = "}"

\* (value.charAt(0) === '[' && value.charAt(value.length - 1) === ']')
rightOperand(value) ==
  charAt(value, 0) = "[" /\ charAt(value, Len(value.s) - 1) = "]"

\* row[key] for the column value: && binds tighter than ||, so the right
\* operand of || is evaluated whenever the left one is false, also for a value
\* that is no string: value.charAt is then not a function (a TypeError).
normalize(value) ==
  IF leftOperand(value) THEN JSONparse(value.s)
  ELSE IF value.t # "string" THEN [err |-> "TypeError", v |-> Undefined]
  ELSE IF rightOperand(value) THEN JSONparse(value.s)
  ELSE [err |-> "none", v |-> value]

----------------------------------------------------------------------------
(* getDay (index.js 396-404) *)

\* Date.prototype.getUTCFullYear/getUTCMonth/getUTCDate of the day that is
\* `days` days after 1970-01-01 (the proleptic Gregorian calendar)
civil(days) ==
  LET z == days + 719468
      era == z \div 146097
      doe == z - era * 146097
      yoe == (doe - doe \div 1460 + doe \div 36524 - doe \div 146096) \div 365
      doy == doe - (365 * yoe + yoe \div 4 - yoe \div 100)
      mp == (5 * doy + 2) \div 153
      d == doy - (153 * mp + 2) \div 5 + 1
      m == IF mp < 10 THEN mp + 3 ELSE mp - 9
  IN [year |-> yoe + era * 400 + (IF m <= 2 THEN 1 ELSE 0), month |-> m, date |-> d]

\* the day read with getFullYear/getMonth/getDate, in a time zone one hour
\* east of UTC
getDayLocalTime(unixTime) ==
  LET num == ToNumber(unixTime)
      date == civil((num.n + 3600) \div 86400)
      month == date.month
      year == ToString(date.year)
      mm == IF month < 10 THEN "0" \o ToString(month) ELSE ToString(month)
      dd == IF date.date < 10 THEN "0" \o ToString(date.date) ELSE ToString(date.date)
  IN IF num.nan THEN "NaN" \o "NaN" \o "NaN" ELSE year \o mm \o dd

\* new Date(unixTime * 1000): unixTime is converted to a number; the date is
\* invalid (every getter NaN) when that number is NaN.  The day of an integer
\* number of seconds is floor(unixTime / 86400).
getDay(unixTime) ==
  LET num == ToNumber(unixTime)
      date == civil(num.n \div 86400)
      month == date.month
      year == ToString(date.year)
      mm == IF month < 10 THEN "0" \o ToString(month) ELSE ToString(month)
      dd == IF date.date < 10 THEN "0" \o ToString(date.date) ELSE ToString(date.date)
  IN IF num.nan THEN "NaN" \o "NaN" \o "NaN" ELSE year \o mm \o dd

----------------------------------------------------------------------------
(* parseResult (index.js 343-394) *)

\* the string 'added'
ADDED == <<"a", "d", "d", "e", "d">>

\* Object.keys(record.columns).forEach(key => ...) from the k-th column on:
\* columns is the sequence of the object's [key, value] pairs in key order
RECURSIVE copyColumns(_, _, _)
copyColumns(columns, k, row) ==
  IF k > Len(columns) THEN [err |-> "none", row |-> row]
  ELSE LET nv == normalize(columns[k].value)
       IN IF nv.err # "none" THEN [err |-> nv.err, row |-> row]
          ELSE copyColumns(columns, k + 1, Put(row, columns[k].key, nv.v))

\* the row of one record: the reserved keys first, then the columns
buildRow(record) ==
  copyColumns(record.columns, 1,
              [k \in {"calendarTime", "unixTime", "added"} |->
                 CASE k = "calendarTime" -> record.calendarTime
                   [] k = "unixTime" -> record.unixTime
                   [] OTHER -> Bool(record.action = Str(ADDED))])

\* for (const record of data) from the k-th record on
RECURSIVE parseFrom(_, _, _)
parseFrom(records, k, tables) ==
  IF k > Len(records) THEN [err |-> "none", tables |-> tables]
  ELSE LET record == records[k]
           day == getDay(record.unixTime)
           partitions == IF record.name \in DOMAIN tables THEN tables[record.name]
                         ELSE EmptyObj
           withDay == IF day \in DOMAIN partitions THEN partitions
                      ELSE Put(partitions, day, <<>>)
           built == buildRow(record)
       IN IF built.err # "none" THEN [err |-> built.err, tables |-> EmptyObj]
          ELSE parseFrom(records, k + 1,
                         Put(tables, record.name,
                             Put(withDay, day, Append(withDay[day], built.row))))

\* parseResult(data): [err, tables]; an exception leaves no dataset
parseResult(records) == parseFrom(records, 1, EmptyObj)

----------------------------------------------------------------------------
(* getRules (index.js 274-292) *)

\* the assignment that keeps the expression a rule name already has
assignRulesFirstWins(tableRules, rules) ==
  [r \in DOMAIN tableRules \cup DOMAIN rules |->
     IF r \in DOMAIN tableRules THEN tableRules[r] ELSE rules[r]]

\* Object.keys(group.rules).forEach(ruleName => tableRules[ruleName] = ...)
assignRules(tableRules, rules) ==
  [r \in DOMAIN tableRules \cup DOMAIN rules |->
     IF r \in DOMAIN rules THEN rules[r] ELSE tableRules[r]]

\* the loop that leaves out a table whose group has no rule
RECURSIVE mergeTablesWithRules(_, _, _)
mergeTablesWithRules(rules, group, k) ==
  IF k > Len(group.tables) \/ group.rules = EmptyObj THEN rules
  ELSE LET tableName == group.tables[k]
           tableRules == IF tableName \in DOMAIN rules THEN rules[tableName] ELSE EmptyObj
       IN mergeTablesWithRules(Put(rules, tableName, assignRules(tableRules, group.rules)),
                               group, k + 1)

\* for (const tableName of group.tables) from the k-th table on
RECURSIVE mergeTables(_, _, _)
mergeTables(rules, group, k) ==
  IF k > Len(group.tables) THEN rules
  ELSE LET tableName == group.tables[k]
           tableRules == IF tableName \in DOMAIN rules THEN rules[tableName] ELSE EmptyObj
       IN mergeTables(Put(rules, tableName, assignRules(tableRules, group.rules)),
                      group, k + 1)

\* Object.keys(parsed).forEach(groupName => ...): parsed is the sequence of
\* the document's groups in key order
RECURSIVE mergeGroups(_, _, _)
mergeGroups(rules, parsed, k) ==
  IF k > Len(parsed) THEN rules
  ELSE mergeGroups(mergeTables(rules, parsed[k], 1), parsed, k + 1)

\* for (const ruleFile of fs.readdirSync(...)) from the k-th file on
RECURSIVE mergeFiles(_, _, _)
mergeFiles(rules, files, k) ==
  IF k > Len(files) THEN rules
  ELSE mergeFiles(mergeGroups(rules, files[k], 1), files, k + 1)

getRules(files) == mergeFiles(EmptyObj, files, 1)

----------------------------------------------------------------------------
(* re.apply: the json-logic-js evaluator, for the operators of the          *)
(* catalog's tests: var, missing, ==, !=, <, !, in, and, or, if.  An        *)
(* expression is a value (a literal) or [op, args]; { var: 'a.b' } is       *)
(* [op |-> "var", path |-> <<"a", "b">>] and { missing: [...] } has the     *)
(* paths of its names.  An operator outside this set has no case here, as   *)
(* it has none in the evaluator (Unrecognized operation).                   *)

\* what an array or object becomes as a primitive: an array joins its
\* elements with commas (nested arrays too), an object is "[object Object]"
RECURSIVE primitiveChars(_)
primitiveChars(cs) ==
  IF cs = <<>> THEN <<>>
  ELSE IF cs[1] \in {"[", "]"} THEN primitiveChars(Tail(cs))
  ELSE IF cs[1] = "{"
       THEN <<"[", "o", "b", "j", "e", "c", "t", " ", "O", "b", "j", "e", "c", "t", "]">>
              \o primitiveChars(Tail(Tail(cs)))
  ELSE <<cs[1]>> \o primitiveChars(Tail(cs))

ToPrimitive(v) == IF v.t = "object" THEN Str(primitiveChars(v.s)) ELSE v

\* a == b of JavaScript (abstract equality); two parsed structures are never
\* the same object
looseEquals(a, b) ==
  LET x == ToPrimitive(a)
      y == ToPrimitive(b)
      nx == ToNumber(x)
      ny == ToNumber(y)
  IN IF a.t = "object" /\ b.t = "object" THEN FALSE
     ELSE IF x.t = y.t THEN x = y
     ELSE IF x.t \in {"null", "undefined"} \/ y.t \in {"null", "undefined"}
          THEN x.t \in {"null", "undefined"} /\ y.t \in {"null", "undefined"}
     ELSE ~nx.nan /\ ~ny.nan /\ nx.n = ny.n

\* the characters of the model in the order of their code units
CodeUnits ==
  <<" ", ",", "0", "1", "2", "3", "4", "5", "6", "7", "8", "9", "O", "S", "[", "]",
    "a", "b", "c", "d", "e", "f", "g", "h", "i", "j", "k", "l", "m", "n", "o", "p",
    "q", "r", "s", "t", "u", "v", "w", "x", "y", "z", "{", "}">>
code(c) == CHOOSE i \in 1..Len(CodeUnits) : CodeUnits[i] = c

\* a < b of two strings: by code units, a proper prefix first
RECURSIVE stringLess(_, _)
stringLess(a, b) ==
  IF b = <<>> THEN FALSE
  ELSE IF a = <<>> THEN TRUE
  ELSE IF Head(a) = Head(b) THEN stringLess(Tail(a), Tail(b))
  ELSE code(Head(a)) < code(Head(b))

\* a < b of JavaScript: two strings by code units, anything else as numbers,
\* false when one of them is NaN
lessThan(a, b) ==
  LET x == ToPrimitive(a)
      y == ToPrimitive(b)
      nx == ToNumber(x)
      ny == ToNumber(y)
  IN IF x.t = "string" /\ y.t = "string" THEN stringLess(x.s, y.s)
     ELSE ~nx.nan /\ ~ny.nan /\ nx.n < ny.n

\* json-logic's truthy: an empty array is falsy, anything else as !!value
truthy(v) == IF v.t = "object" /\ v.s = <<"[", "]">> THEN FALSE ELSE Truthy(v)

\* a lookup that gives undefined for a key the row does not have
varUndefined(row, path) ==
  IF path[1] \notin DOMAIN row THEN Undefined
  ELSE IF Len(path) = 1 THEN row[path[1]]
  ELSE Undefined

\* { var: path }: the row's value, null when the row has no such key.  Under
\* a value of the model (a string, a number, a boolean, {} or an array) the
\* next name of a dotted path is no property: null again.
var(row, path) ==
  IF path[1] \notin DOMAIN row THEN Null
  ELSE IF Len(path) = 1
       THEN (IF row[path[1]].t = "undefined" THEN Null ELSE row[path[1]])
  ELSE Null

\* the decimal digits of a natural number
RECURSIVE digitsOf(_)
digitsOf(k) == IF k < 10 THEN <<ToString(k)>> ELSE digitsOf(k \div 10) \o <<ToString(k % 10)>>

\* String(value) of a string, null, a boolean or a natural number
ToStr(v) ==
  CASE v.t = "string" -> v.s
    [] v.t = "null" -> <<"n", "u", "l", "l">>
    [] v.t = "boolean" -> IF v.n = 1 THEN <<"t", "r", "u", "e">> ELSE <<"f", "a", "l", "s", "e">>
    [] v.t = "number" -> digitsOf(v.n)
    [] OTHER -> primitiveChars(v.s)

\* String.prototype.indexOf(a) !== -1
isSubstring(a, b) ==
  \E p \in 0..(Len(b) - Len(a)) : SubSeq(b, p + 1, p + Len(a)) = a

\* the texts of the elements of the array whose text is cs, from position p
\* on, at nesting depth d, the element under way being cur
RECURSIVE elements(_, _, _, _)
elements(cs, p, d, cur) ==
  IF p > Len(cs) THEN <<>>
  ELSE IF cs[p] = "[" /\ d = 0 THEN elements(cs, p + 1, 1, <<>>)
  ELSE IF cs[p] = "]" /\ d = 1 THEN (IF cur = <<>> THEN <<>> ELSE <<cur>>)
  ELSE IF cs[p] = "," /\ d = 1 THEN <<cur>> \o elements(cs, p + 1, 1, <<>>)
  ELSE elements(cs, p + 1,
                d + (IF cs[p] \in {"[", "{"} THEN 1 ELSE IF cs[p] \in {"]", "}"} THEN -1 ELSE 0),
                Append(cur, cs[p]))

\* { in: [a, b] }: false when b is falsy or has no indexOf (a number, a
\* boolean, {}); in a string, String(a) is looked for; in an array, an
\* element === a: the arrays of the model hold numbers, arrays and {}
in(a, b) ==
  IF ~Truthy(b) THEN FALSE
  ELSE IF b.t = "string" THEN isSubstring(ToStr(a), b.s)
  ELSE IF b.t = "object" /\ b.s[1] = "["
       THEN /\ a.t = "number"
            /\ \E j \in 1..Len(elements(b.s, 1, 0, <<>>)) :
                 LET e == elements(b.s, 1, 0, <<>>)[j]
                 IN (\A i \in 1..Len(e) : e[i] \in Digits) /\ DecVal(e) = a.n
  ELSE FALSE

\* 'a.b' of the path <<"a", "b">>
RECURSIVE dotted(_)
dotted(path) ==
  IF Len(path) = 1 THEN path ELSE <<Head(path), ".">> \o dotted(Tail(path))

\* the array of names that { missing: paths } returns, as its JSON text
RECURSIVE missingFrom(_, _, _)
missingFrom(row, paths, k) ==
  IF k > Len(paths) THEN <<>>
  ELSE LET value == var(row, paths[k])
           rest == missingFrom(row, paths, k + 1)
       IN IF value.t = "null" \/ value = Str(<<>>)
          THEN <<"\"">> \o dotted(paths[k]) \o <<"\"">> \o (IF rest = <<>> THEN <<>> ELSE <<",">> \o rest)
          ELSE rest
missing(row, paths) == Parsed(<<"[">> \o missingFrom(row, paths, 1) \o <<"]">>)

RECURSIVE apply(_, _), andFrom(_, _, _), orFrom(_, _, _), ifFrom(_, _, _)
\* and: the first operand that is not truthy, or the last one
andFrom(args, k, row) ==
  IF k = Len(args) \/ ~truthy(apply(args[k], row)) THEN apply(args[k], row)
  ELSE andFrom(args, k + 1, row)
\* or: the first operand that is truthy, or the last one
orFrom(args, k, row) ==
  IF k = Len(args) \/ truthy(apply(args[k], row)) THEN apply(args[k], row)
  ELSE orFrom(args, k + 1, row)
\* if: [condition, then, condition, then, ..., else]; null without an else
ifFrom(args, k, row) ==
  IF k > Len(args) THEN Null
  ELSE IF k = Len(args) THEN apply(args[k], row)
  ELSE IF truthy(apply(args[k], row)) THEN apply(args[k + 1], row)
  ELSE ifFrom(args, k + 2, row)
apply(logic, row) ==
  IF "op" \notin DOMAIN logic THEN logic
  ELSE CASE logic.op = "var" -> var(row, logic.path)
         [] logic.op = "missing" -> missing(row, logic.paths)
         [] logic.op = "==" ->
              Bool(looseEquals(apply(logic.args[1], row), apply(logic.args[2], row)))
         [] logic.op = "!=" ->
              Bool(~looseEquals(apply(logic.args[1], row), apply(logic.args[2], row)))
         [] logic.op = "<" ->
              Bool(lessThan(apply(logic.args[1], row), apply(logic.args[2], row)))
         [] logic.op = "!" -> Bool(~truthy(apply(logic.args[1], row)))
         [] logic.op = "in" ->
              Bool(in(apply(logic.args[1], row), apply(logic.args[2], row)))
         [] logic.op = "and" -> andFrom(logic.args, 1, row)
         [] logic.op = "or" -> orFrom(logic.args, 1, row)
         [] logic.op = "if" -> ifFrom(logic.args, 1, row)

----------------------------------------------------------------------------
(* processRules (index.js 435-470) *)

\* the condition without its test of row.added
ruleFiresAnyRow(rule, row) == Truthy(apply(rule, row))

\* if (row.added && re.apply(tableRules[ruleName], row))
ruleFires(rule, row) == Truthy(row["added"]) /\ Truthy(apply(rule, row))

\* every (table, day, row, rule) the four nested forEach visit: a table
\* without an entry in the catalog is skipped (if (!tableRules) return)
visited(dataset, catalog) ==
  UNION { UNION { UNION { { [table |-> tableName, day |-> day, idx |-> j, rule |-> ruleName] :
                            ruleName \in DOMAIN catalog[tableName] } :
                          j \in 1..Len(dataset[tableName][day]) } :
                  day \in DOMAIN dataset[tableName] } :
          tableName \in DOMAIN dataset \cap DOMAIN catalog }

rowOf(dataset, m) == dataset[m.table][m.day][m.idx]

\* the matches: console.info('Rule match:', ruleName, ...) and the first
\* sns.publish of each
processRules(dataset, catalog) ==
  { m \in visited(dataset, catalog) : ruleFires(catalog[m.table][m.rule], rowOf(dataset, m)) }

\* the publish loop runs i = 0, 1, 2
SnsAttempts == 3

\* sns.publish({Subject: 'Rule failed: ' + ruleName, Message: ...(row)})
publishRequest(dataset, m) ==
  [Subject |-> "Rule failed: " \o m.rule, Message |-> rowOf(dataset, m)]

----------------------------------------------------------------------------
(* uploadToS3 (index.js 406-433) *)

\* the putObject loop runs i = 0, 1, 2
S3Attempts == 3

\* crypto.randomBytes(20).toString('hex')
Ids == {"a1", "b2"}

\* `${tableName}/day=${day}/${id}.json`
Key(tableName, day, id) == tableName \o "/day=" \o day \o "/" \o id \o ".json"

\* an id drawn anew for every attempt
retryIdsFresh(id) == Ids

\* the ids the next attempt of a bucket may write under: id and Key are set
\* once, before the loop
retryIds(id) == {id}

\* the (table, day) buckets the two nested forEach visit
buckets(dataset) ==
  UNION { { [table |-> tableName, day |-> day] : day \in DOMAIN dataset[tableName] } :
          tableName \in DOMAIN dataset }

\* rows.forEach(row => Body += JSON.stringify(row) + '\n')
Body(dataset, b) == dataset[b.table][b.day]

----------------------------------------------------------------------------
(* ENROLL_SECRETS, NODE_KEYS, enroll and the checks of log                  *)
(* (index.js 230-243, 294-312)                                              *)

OK == [statusCode |-> 200]
ERROR == [statusCode |-> 500]

\* process.env.ENROLL_SECRETS || '': the characters of the list
enrollSecrets(e) == IF Truthy(e) THEN e.s ELSE <<>>

\* String.prototype.split(','): the pieces between the commas, from the
\* piece that begins with piece on; '' gives ['']
RECURSIVE splitOn(_, _, _)
splitOn(cs, sep, piece) ==
  IF cs = <<>> THEN <<piece>>
  ELSE IF Head(cs) = sep THEN <<piece>> \o splitOn(Tail(cs), sep, <<>>)
  ELSE splitOn(Tail(cs), sep, Append(piece, Head(cs)))

\* String.prototype.trim, over the white space of the model: the blank
RECURSIVE trim(_)
trim(cs) ==
  IF cs = <<>> THEN cs
  ELSE IF Head(cs) = " " THEN trim(Tail(cs))
  ELSE IF cs[Len(cs)] = " " THEN trim(SubSeq(cs, 1, Len(cs) - 1))
  ELSE cs

\* crypto.createHash('sha256').update(cs).digest('hex'): the digest is
\* written as a term of its input, sha256(cs): a string that is never empty,
\* differs from its input, and is the same for the same input only
sha256(cs) == <<"sha256(">> \o cs \o <<")">>

\* enrollSecrets.split(',').forEach(secret => ENROLL_SECRETS.push(trimmed))
secretsOf(e) ==
  [j \in 1..Len(splitOn(enrollSecrets(e), ",", <<>>)) |->
     trim(splitOn(enrollSecrets(e), ",", <<>>)[j])]
\* ... NODE_KEYS.push(sha256(trimmed))
nodeKeysOf(e) == [j \in 1..Len(secretsOf(e)) |-> sha256(secretsOf(e)[j])]

\* Array.prototype.indexOf(value) >= 0 on an array of strings: strict
\* equality, so only a string can be found
found(list, value) ==
  value.t = "string" /\ \E j \in 1..Len(list) : list[j] = value.s

\* the negation of enroll's test: body.enroll_secret is truthy and listed
enrolls(secrets, enroll_secret) ==
  Truthy(enroll_secret) /\ found(secrets, enroll_secret)

\* the negation of log's first test: body.node_key is truthy and listed
accepts(keys, key) == Truthy(key) /\ found(keys, key)

----------------------------------------------------------------------------
(* The inputs of the model: rule documents and record batches *)

Pods == "kubernetes_pods"
Nodes == "kubernetes_nodes"

\* { var: 'a.b' } and { op: [ ... ] }
Var(path) == [op |-> "var", path |-> path]
Op(op, args) == [op |-> op, args |-> args]

\* { "==": [ { var: "privileged" }, "1" ] }
RulePrivileged == Op("==", <<Var(<<"privileged">>), Str(<<"1">>)>>)
\* { "!=": [ { var: "read_only_root_filesystem" }, "1" ] }
RuleReadOnly == Op("!=", <<Var(<<"read_only_root_filesystem">>), Str(<<"1">>)>>)

\* { "==": [ { var: "host_network" }, "1" ] }
RuleHostNetwork == Op("==", <<Var(<<"host_network">>), Str(<<"1">>)>>)

\* the "tables" and "rules" a group of a rule document may have
GroupTables == {<<>>, <<Pods>>, <<Nodes>>, <<Pods, Nodes>>}
GroupRules == { EmptyObj,
                "privileged" :> RulePrivileged,
                "privileged" :> RuleReadOnly,
                "rootfs" :> RuleReadOnly,
                "privileged" :> RulePrivileged @@ "rootfs" :> RuleReadOnly,
                "privileged" :> RuleReadOnly @@ "rootfs" :> RulePrivileged }
Groups == [tables : GroupTables, rules : GroupRules]

\* the files of the rules directory: the groups gs, in the order getRules
\* merges them, cut into documents after the positions of cuts
RECURSIVE split(_, _, _, _)
split(gs, cuts, k, doc) ==
  IF k > Len(gs) THEN (IF doc = <<>> THEN <<>> ELSE <<doc>>)
  ELSE IF k \in cuts THEN <<Append(doc, gs[k])>> \o split(gs, cuts, k + 1, <<>>)
  ELSE split(gs, cuts, k + 1, Append(doc, gs[k]))

\* dir is a rules directory of at most MaxGroups groups, with or without a
\* last document that has no group at all
RuleDir(dir) ==
  \E n \in 0..MaxGroups : \E gs \in [1..n -> Groups] :
    \E cuts \in SUBSET (1..(n - 1)) : \E last \in {<<>>, << <<>> >>} :
      dir = split(gs, cuts, 1, <<>>) \o last

\* the rules directory of the log pipeline's runs
PodRules ==
  << << [tables |-> <<Pods>>,
         rules |-> "privileged" :> RulePrivileged @@ "host_network" :> RuleHostNetwork] >> >>

Col(key, value) == [key |-> key, value |-> value]
Record(name, unixTime, calendarTime, action, columns) ==
  [name |-> name, unixTime |-> unixTime, calendarTime |-> calendarTime,
   action |-> action, columns |-> columns]

\* 2021-05-08T23:59:59Z and the second after it
May8 == Num(1620518399)
May9 == Num(1620518400)
\* 2020-12-31T23:59:59Z
Dec31 == Num(1609459199)

Sat == Str(<<"S", "a", "t">>)
Sun == Str(<<"S", "u", "n">>)
REMOVED == <<"r", "e", "m", "o", "v", "e", "d">>
One == Str(<<"1">>)
Zero == Str(<<"0">>)

\* the records of the partitioner's runs: every table, day and action with
\* plain columns, and every kind of column value under one table and day
ParseRecords ==
     { Record(name, unixTime, Sat, Str(ADDED), <<Col("privileged", One)>>) :
         name \in {Pods, Nodes},
         unixTime \in {May8, May9, Dec31, Undefined, Str(<<"x">>)} }
  \cup
     { Record(Pods, May8, Sun, action, <<Col("privileged", One)>>) :
         action \in {Str(REMOVED), Str(<<"u", "n", "k">>), Undefined} }
  \cup
     { Record(Pods, May8, Sun, Str(ADDED), columns) :
         columns \in { <<>>,
                       <<Col("privileged", Zero)>>,
                       <<Col("labels", Str(<<>>))>>,
                       <<Col("labels", Str(<<"{", "}">>))>>,
                       <<Col("labels", Str(<<"[", "1", ",", "2", "]">>))>>,
                       <<Col("labels", Str(<<"{", "x", "}">>))>>,
                       <<Col("labels", Str(<<"[", "x", "]">>))>>,
                       <<Col("labels", Str(<<"[">>))>>,
                       <<Col("labels", Str(<<"{", "x">>))>>,
                       <<Col("privileged", Num(1))>>,
                       <<Col("privileged", Bool(TRUE))>>,
                       <<Col("added", Str(<<>>)), Col("privileged", One)>>,
                       <<Col("calendarTime", Sat), Col("privileged", One)>> } }
  \cup
     { Record(Pods, May8, Sun, Str(REMOVED),
              <<Col("added", One), Col("privileged", One)>>) }

\* the records of the log pipeline's runs
PipelineRecords ==
  { Record(Pods, May8, Sat, Str(ADDED), <<Col("privileged", One)>>),
    Record(Pods, May8, Sun, Str(REMOVED),
           <<Col("privileged", One), Col("host_network", One)>>),
    Record(Pods, May8, Sun, Str(ADDED), <<Col("privileged", Zero)>>),
    Record(Nodes, May9, Sun, Str(ADDED), <<Col("privileged", One)>>) }

\* the seconds of the day partitioner's runs: the last second of a day and
\* the first of the next, around the epoch, a year's end, a leap day, a
\* month's end and the two-digit months and days
DayTimes ==
  { -1, 0, 86399, 86400, 946684799, 946684800, 951825600, 1582934399, 1582934400,
    1583020799, 1583020800, 1609459199, 1609459200, 1620518398, 1620518399,
    1620518400, 1633823999, 1633824000 }

\* the records of the day partitioner's runs: unixTime as a number, with
\* another calendarTime too for the seconds around one midnight, and as a
\* string of digits
DayRecords ==
     { Record(Pods, Num(n), Sat, Str(ADDED), <<Col("privileged", One)>>) : n \in DayTimes }
  \cup
     { Record(Pods, unixTime, Sun, Str(ADDED), <<Col("privileged", One)>>) :
         unixTime \in {May8, May9} }
  \cup
     { Record(Pods, Str(<<"8", "6", "3", "9", "9">>), Sat, Str(ADDED), <<>>),
       Record(Pods, Str(<<"8", "6", "4", "0", "0">>), Sat, Str(ADDED), <<>>) }

\* the rule expressions of the evaluator's runs, over the field x and the
\* dotted path x.y: the tests of the catalog's tests, the operators that
\* return a value of the row, and !, and, or and if over them
Missing(paths) == [op |-> "missing", paths |-> paths]
Tests ==
     { Op(op, <<Var(path), lit>>) :
         op \in {"==", "!=", "<"}, path \in {<<"x">>, <<"x", "y">>},
         lit \in {One, Str(<<"1", "0", "0", "0", "0">>)} }
  \cup
     { Op("in", <<One, Var(path)>>) : path \in {<<"x">>, <<"x", "y">>} }
Values == { Var(<<"x">>), Var(<<"x", "y">>), Missing(<< <<"x">> >>),
            Missing(<< <<"x">>, <<"x", "y">> >>) }
Operands ==
  { Op("==", <<Var(<<"x">>), One>>), Op("!=", <<Var(<<"x">>), One>>),
    Op("<", <<Var(<<"x">>), Str(<<"1", "0", "0", "0", "0">>)>>),
    Op("in", <<One, Var(<<"x">>)>>), Var(<<"x">>), Missing(<< <<"x">> >>) }
EvalRules ==
  Tests \cup Values
    \cup { Op("!", <<e>>) : e \in Tests \cup Values }
    \cup { Op(op, <<a, b>>) : op \in {"and", "or"}, a \in Operands, b \in Operands }
    \cup { Op("if", <<c, Bool(TRUE), Bool(FALSE)>>) : c \in Operands \cup Values }
    \cup { Op("if", <<c, Bool(TRUE)>>) : c \in Operands }

\* the records of the evaluator's runs: no column, the field empty, another
\* field only, and the field with a value
EvalRecords ==
  { Record(Pods, May8, Sat, Str(ADDED), columns) :
      columns \in { <<>>, <<Col("x", Str(<<>>))>>, <<Col("z", One)>>, <<Col("x", One)>>,
                    <<Col("x", Str(<<"1", "0", "0", "0", "0">>))>> } }

\* the values of body.log_type
RESULT == Str(<<"r", "e", "s", "u", "l", "t">>)
STATUS == Str(<<"s", "t", "a", "t", "u", "s">>)
SNAPSHOT == Str(<<"s", "n", "a", "p", "s", "h", "o", "t">>)
LogTypes == {RESULT, STATUS, SNAPSHOT, Str(<<"x">>), Str(<<>>), Undefined}

\* the values of process.env.ENROLL_SECRETS: unset, empty, one secret, two,
\* a blank before a secret, an empty entry after one, empty entries, a blank
EnvSecrets ==
  { Undefined, Str(<<>>), Str(<<"a">>), Str(<<"a", ",", "b">>), Str(<<" ", "a">>),
    Str(<<"a", ",">>), Str(<<",">>), Str(<<" ">>) }

\* the values of body.enroll_secret
EnrollSecretInputs ==
  { Undefined, Str(<<>>), Str(<<"a">>), Str(<<"b">>), Str(<<" ", "a">>), Str(<<" ">>),
    Str(<<"a", ",", "b">>), Num(0) }

\* the values of body.node_key: none, empty, a secret itself, digests
NodeKeyInputs ==
  { Undefined, Str(<<>>), Str(<<"a">>),
    Str(sha256(<<>>)), Str(sha256(<<"a">>)), Str(sha256(<<"b">>)),
    Str(sha256(<<" ", "a">>)), Str(sha256(<<" ">>)) }

\* the configuration and the credentials of the log pipeline's runs
Enrolled ==
  /\ env = Str(<<"a">>)
  /\ node_key = Str(sha256(<<"a">>))
  /\ log_type = RESULT

\* batch is a sequence of at most MaxRecords of the records
Batch(batch, records) == \E n \in 0..MaxRecords : batch \in [1..n -> records]

----------------------------------------------------------------------------
(* The state machine *)

\* a bag of notifications with one more of e
BagAdd(bag, e) == Put(bag, e, IF e \in DOMAIN bag THEN bag[e] + 1 ELSE 1)

\* the state before the module is loaded
Fresh ==
  /\ RULES = EmptyObj
  /\ pc = "init"
  /\ data = EmptyObj
  /\ err = "none"
  /\ matches = {}
  /\ pubs = EmptyObj
  /\ sns = EmptyObj
  /\ ups = EmptyObj
  /\ s3 = EmptyObj
  /\ ENROLL_SECRETS = <<>>
  /\ NODE_KEYS = <<>>
  /\ issued = {}
  /\ response = <<>>

\* the loading of the module: ENROLL_SECRETS and NODE_KEYS (index.js
\* 238-243), const RULES = getRules()  (index.js 245)
Load ==
  /\ pc = "init"
  /\ ENROLL_SECRETS' = secretsOf(env)
  /\ NODE_KEYS' = nodeKeysOf(env)
  /\ RULES' = getRules(docs)
  /\ pc' = "ready"
  /\ UNCHANGED <<docs, body, data, err, matches, pubs, sns, ups, s3,
                 env, issued, req, response>>

\* enroll(body) (index.js 294-302), a request of its own: a listed secret is
\* answered with its node_key, which the client keeps; any other with ERROR
enroll(enroll_secret) ==
  /\ pc # "init"
  /\ issued' = IF enrolls(ENROLL_SECRETS, enroll_secret)
               THEN issued \cup {Str(sha256(enroll_secret.s))}
               ELSE issued
  /\ UNCHANGED <<docs, RULES, body, pc, data, err, matches, pubs, sns, ups, s3,
                 env, ENROLL_SECRETS, NODE_KEYS, req, response>>

\* log(body) up to its await (index.js 304-326).  body.data is the array
\* body, which is truthy also when empty.  A "status" batch goes through
\* logStatus, which writes every row of the model (none has a severity) with
\* console.error, and returns OK.  For a "result" batch (index.js 320-326):
\* parseResult, then the synchronous part of processRules (every rule is
\* evaluated, every match starts its first publish) and of uploadToS3 (every
\* bucket draws its id and starts its first putObject).  An exception of
\* parseResult leaves log().
log ==
  /\ pc = "ready"
  /\ IF ~accepts(NODE_KEYS, node_key)
     THEN /\ pc' = "error"
          /\ err' = "Invalid node key"
          /\ response' = <<ERROR>>
          /\ UNCHANGED <<data, matches, pubs, ups>>
     ELSE IF ~Truthy(log_type)
     THEN /\ pc' = "error"
          /\ err' = "Invalid log data"
          /\ response' = <<ERROR>>
          /\ UNCHANGED <<data, matches, pubs, ups>>
     ELSE IF log_type \in {STATUS, SNAPSHOT}
     THEN /\ pc' = "done"
          /\ response' = <<OK>>
          /\ UNCHANGED <<data, err, matches, pubs, ups>>
     ELSE IF log_type # RESULT
     THEN /\ pc' = "error"
          /\ response' = <<ERROR>>
          /\ UNCHANGED <<data, err, matches, pubs, ups>>
     ELSE
     LET parsed == parseResult(body)
     IN IF parsed.err # "none"
        THEN /\ pc' = "threw"
             /\ err' = parsed.err
             /\ UNCHANGED <<data, matches, pubs, ups, response>>
        ELSE /\ pc' = "awaitAll"
             /\ response' = response
             /\ err' = "none"
             /\ data' = parsed.tables
             /\ matches' = processRules(parsed.tables, RULES)
             /\ pubs' = [m \in processRules(parsed.tables, RULES) |-> [i |-> 0, ok |-> 0]]
             /\ \E id \in [buckets(parsed.tables) -> Ids] :
                  ups' = [b \in buckets(parsed.tables) |->
                            [id |-> id[b],
                             keys |-> <<Key(b.table, b.day, id[b])>>,
                             state |-> "inflight"]]
  /\ UNCHANGED <<docs, RULES, body, sns, s3, auth, req>>

\* a return that reports the failed deliveries
logReturnFailing ==
  /\ pc = "awaitAll"
  /\ pc' = "responded"
  /\ response' = IF \/ \E b \in DOMAIN ups : ups[b].state = "failed"
                    \/ \E m \in DOMAIN pubs : pubs[m].i = SnsAttempts /\ pubs[m].ok = 0
                 THEN <<ERROR>> ELSE <<OK>>
  /\ UNCHANGED <<docs, RULES, body, data, err, matches, pubs, sns, ups, s3, auth, req>>

\* await Promise.all([...]); return OK  (index.js 326-327): neither promise
\* waits for the callbacks' publish and putObject calls
logReturn ==
  /\ pc = "awaitAll"
  /\ pc' = "responded"
  /\ response' = <<OK>>
  /\ UNCHANGED <<docs, RULES, body, data, err, matches, pubs, sns, ups, s3, auth, req>>

\* the publish a match awaits settles (index.js 451-464): the loop goes on
\* to i + 1 after a success as after a failure
publishSettled(m) ==
  /\ pc \in {"awaitAll", "responded"}
  /\ m \in DOMAIN pubs
  /\ pubs[m].i < SnsAttempts
  /\ \/ /\ sns' = BagAdd(sns, publishRequest(data, m))
        /\ pubs' = [pubs EXCEPT ![m] = [i |-> @.i + 1, ok |-> @.ok + 1]]
     \/ /\ sns' = sns
        /\ pubs' = [pubs EXCEPT ![m] = [i |-> @.i + 1, ok |-> @.ok]]
  /\ UNCHANGED <<docs, RULES, body, pc, data, err, matches, ups, s3, auth, req, response>>

\* a loop over the buckets that stops at the first bucket that failed
putObjectSettledAborting(b) ==
  /\ pc \in {"awaitAll", "responded"}
  /\ b \in DOMAIN ups
  /\ ups[b].state = "inflight"
  /\ \A c \in DOMAIN ups : ups[c].state # "failed"
  /\ \/ /\ s3' = Put(s3, ups[b].keys[Len(ups[b].keys)], Body(data, b))
        /\ ups' = [ups EXCEPT ![b].state = "stored"]
     \/ /\ s3' = s3
        /\ IF Len(ups[b].keys) < S3Attempts
           THEN ups' = [ups EXCEPT ![b].keys = Append(@, Key(b.table, b.day, ups[b].id))]
           ELSE ups' = [ups EXCEPT ![b].state = "failed"]
  /\ UNCHANGED <<docs, RULES, body, pc, data, err, matches, pubs, sns, auth, req, response>>

\* the putObject a bucket awaits settles (index.js 421-430): a success
\* leaves the loop, a failure goes on to i + 1 with the Key of the bucket
putObjectSettled(b) ==
  /\ pc \in {"awaitAll", "responded"}
  /\ b \in DOMAIN ups
  /\ ups[b].state = "inflight"
  /\ \/ /\ s3' = Put(s3, ups[b].keys[Len(ups[b].keys)], Body(data, b))
        /\ ups' = [ups EXCEPT ![b].state = "stored"]
     \/ /\ s3' = s3
        /\ IF Len(ups[b].keys) < S3Attempts
           THEN \E id \in retryIds(ups[b].id) :
                  ups' = [ups EXCEPT ![b].keys = Append(@, Key(b.table, b.day, id))]
           ELSE ups' = [ups EXCEPT ![b].state = "failed"]
  /\ UNCHANGED <<docs, RULES, body, pc, data, err, matches, pubs, sns, auth, req, response>>

\* the log pipeline: one "result" request, from the loading of the module to
\* the last callback
Init == docs = PodRules /\ Batch(body, PipelineRecords) /\ Enrolled /\ Fresh
Next ==
  \/ Load
  \/ log
  \/ logReturn
  \/ \E m \in DOMAIN pubs : publishSettled(m)
  \/ \E b \in DOMAIN ups : putObjectSettled(b)
Spec == Init /\ [][Next]_vars

\* the partitioner: log() up to its await, over the records of ParseRecords
InitParse == docs = PodRules /\ Batch(body, ParseRecords) /\ Enrolled /\ Fresh
NextParse == Load \/ log
SpecParse == InitParse /\ [][NextParse]_vars

\* the loader: the module's loading, over the rules directories of RuleDirs
InitRules == RuleDir(docs) /\ body = <<>> /\ Enrolled /\ Fresh
NextRules == Load
SpecRules == InitRules /\ [][NextRules]_vars

\* the day partitioner: log() up to its await, over the records of DayRecords
InitDay == docs = PodRules /\ Batch(body, DayRecords) /\ Enrolled /\ Fresh
SpecDay == InitDay /\ [][NextParse]_vars

\* the evaluator: log() up to its await, with one rule of EvalRules on the
\* table of the records of EvalRecords
InitEval ==
  /\ \E rule \in EvalRules : docs = << << [tables |-> <<Pods>>, rules |-> "rule" :> rule] >> >>
  /\ Batch(body, EvalRecords)
  /\ Enrolled
  /\ Fresh
SpecEval == InitEval /\ [][NextParse]_vars

\* the log pipeline for one batch of two buckets with a match each
InitSiblings ==
  /\ docs = PodRules
  /\ body = << Record(Pods, May8, Sat, Str(ADDED), <<Col("privileged", One)>>),
               Record(Pods, May9, Sun, Str(ADDED), <<Col("host_network", One)>>) >>
  /\ Enrolled
  /\ Fresh
SpecSiblings == InitSiblings /\ [][Next]_vars

\* the credentials: enroll requests and one log request, over the values of
\* ENROLL_SECRETS, of body.enroll_secret, of body.node_key and body.log_type
InitAuth ==
  /\ docs = PodRules
  /\ Batch(body, {Record(Pods, May8, Sat, Str(ADDED), <<Col("privileged", One)>>)})
  /\ env \in EnvSecrets
  /\ node_key \in NodeKeyInputs
  /\ log_type \in LogTypes
  /\ Fresh
NextAuth ==
  \/ Load
  \/ \E enroll_secret \in EnrollSecretInputs : enroll(enroll_secret)
  \/ log
SpecAuth == InitAuth /\ [][NextAuth]_vars

----------------------------------------------------------------------------
(* The claims *)

\* log() has run parseResult
logRan == pc \in {"awaitAll", "responded", "threw"}

\* the records of the batch with this table and day, in the batch's order
recordsOf(tableName, day) ==
  SelectSeq(body, LAMBDA r : r.name = tableName /\ getDay(r.unixTime) = day)

\* the places of the dataset: (table, day, index in the bucket)
places ==
  UNION { UNION { { [table |-> t, day |-> d, idx |-> j] : j \in 1..Len(data[t][d]) } :
                  d \in DOMAIN data[t] } :
          t \in DOMAIN data }

\* the bucket of every (table, day) holds the rows of the records with that
\* table and day, in the batch's order, and there is no other bucket
placedInOrder ==
  /\ DOMAIN data = { body[k].name : k \in 1..Len(body) }
  /\ \A t \in DOMAIN data :
       /\ DOMAIN data[t] =
            { getDay(body[k].unixTime) : k \in { j \in 1..Len(body) : body[j].name = t } }
       /\ \A d \in DOMAIN data[t] :
            data[t][d] = [j \in 1..Len(recordsOf(t, d)) |-> buildRow(recordsOf(t, d)[j]).row]

\* C1: once parseResult has run on a batch, the dataset holds the row of every
\* record of the batch exactly once, in the bucket of the record's table and
\* day, the rows of a bucket in the order of their records in the batch (an
\* empty batch gives an empty dataset).
C1_EveryRecordPlacedOnce == logRan => (err = "none" /\ placedInOrder)

\* Supporting fact for C1: whenever parseResult returns, the placement holds.
C1_PlacedWhenReturned == (logRan /\ err = "none") => placedInOrder

\* C2: a row whose added field is false is in no rule match and in no
\* notification given to or delivered by the notification sink, whatever its
\* other fields are.
C2_NotAddedNeverMatches ==
  /\ \A m \in matches : rowOf(data, m)["added"] # Bool(FALSE)
  /\ \A m \in DOMAIN pubs : publishRequest(data, m).Message["added"] # Bool(FALSE)
  /\ \A n \in DOMAIN sns : n.Message["added"] # Bool(FALSE)

\* C2's case: every callback has run for a batch with a row of a catalog
\* table whose added field is false and which satisfies a rule of its table.
C2_Witness ==
  /\ pc = "responded"
  /\ \A m \in DOMAIN pubs : pubs[m].i = SnsAttempts
  /\ \E m \in visited(data, RULES) :
       /\ rowOf(data, m)["added"] = Bool(FALSE)
       /\ Truthy(apply(RULES[m.table][m.rule], rowOf(data, m)))

\* C3: in the dataset parseResult returns, the added field of every row is
\* true when its record's action is 'added' and false for every other action.
C3_AddedIffActionAdded ==
  (logRan /\ err = "none") =>
    \A p \in places :
      data[p.table][p.day][p.idx]["added"] =
        Bool(recordsOf(p.table, p.day)[p.idx].action = Str(ADDED))

\* C4: the matches processRules emits are exactly the (table, rule, row) with
\* the table in the catalog, the row in the dataset under that table, the
\* row's added field true and the rule's expression truthy on the row.
C4_MatchExactlyWhen ==
  (logRan /\ err = "none") =>
    matches =
      { m \in { [table |-> p.table, day |-> p.day, idx |-> p.idx, rule |-> r] :
                  p \in { q \in places : q.table \in DOMAIN RULES },
                  r \in UNION { DOMAIN RULES[t] : t \in DOMAIN RULES } } :
          /\ m.rule \in DOMAIN RULES[m.table]
          /\ rowOf(data, m)["added"] = Bool(TRUE)
          /\ Truthy(apply(RULES[m.table][m.rule], rowOf(data, m))) }

\* Supporting fact for C4: the same with "the row's added field is truthy".
C4_MatchExactlyWhenTruthy ==
  (logRan /\ err = "none") =>
    matches =
      { m \in { [table |-> p.table, day |-> p.day, idx |-> p.idx, rule |-> r] :
                  p \in { q \in places : q.table \in DOMAIN RULES },
                  r \in UNION { DOMAIN RULES[t] : t \in DOMAIN RULES } } :
          /\ m.rule \in DOMAIN RULES[m.table]
          /\ Truthy(rowOf(data, m)["added"])
          /\ Truthy(apply(RULES[m.table][m.rule], rowOf(data, m))) }

\* a string of length > 1 that begins with { and ends with }, or begins
\* with [ and ends with ]
jsonShaped(value) ==
  /\ value.t = "string"
  /\ Len(value.s) > 1
  /\ \/ value.s[1] = "{" /\ value.s[Len(value.s)] = "}"
     \/ value.s[1] = "[" /\ value.s[Len(value.s)] = "]"

\* C5: a column value that is no JSON-shaped string is passed through
\* without error (a batch without JSON-shaped strings is parsed), and in the
\* dataset every column of a row is the parsed structure of a JSON-shaped
\* string and the record's own value in every other case.
C5_ColumnsNormalized ==
  logRan =>
    /\ (\A k \in 1..Len(body) : \A c \in 1..Len(body[k].columns) :
          ~jsonShaped(body[k].columns[c].value)) => err = "none"
    /\ err = "none" =>
         \A p \in places :
           LET record == recordsOf(p.table, p.day)[p.idx]
           IN \A c \in 1..Len(record.columns) :
                data[p.table][p.day][p.idx][record.columns[c].key] =
                  IF jsonShaped(record.columns[c].value)
                  THEN Parsed(record.columns[c].value.s)
                  ELSE record.columns[c].value

\* a record whose timestamp gives no day or one of whose JSON-shaped columns
\* does not parse
malformed(record) ==
  \/ getDay(record.unixTime) = "NaNNaNNaN"
  \/ \E c \in 1..Len(record.columns) :
       /\ jsonShaped(record.columns[c].value)
       /\ JSONparse(record.columns[c].value.s).err # "none"

\* C6: in a batch whose column values are all strings, every record that is
\* not malformed is placed in the bucket of its table and day, whatever the
\* other records of the batch are.
C6_MalformedRecordIsLocal ==
  (/\ logRan
   /\ \A k \in 1..Len(body) : \A c \in 1..Len(body[k].columns) :
        body[k].columns[c].value.t = "string") =>
    \A k \in 1..Len(body) :
      ~malformed(body[k]) =>
        /\ body[k].name \in DOMAIN data
        /\ getDay(body[k].unixTime) \in DOMAIN data[body[k].name]
        /\ \E j \in 1..Len(data[body[k].name][getDay(body[k].unixTime)]) :
             data[body[k].name][getDay(body[k].unixTime)][j] = buildRow(body[k]).row

\* C7: every notification of the sink carries the rule name and the row of a
\* match, and a match whose publish has succeeded has one notification and
\* no further publish under way.
C7_OneNotificationPerMatch ==
  /\ \A n \in DOMAIN sns : \E m \in matches : n = publishRequest(data, m)
  /\ \A m \in DOMAIN pubs :
       pubs[m].ok >= 1 => (pubs[m].ok = 1 /\ pubs[m].i = SnsAttempts)

\* C8 as stated: the key of every attempt is table/day=DAY/<id>.json, and a
\* retried attempt of a bucket writes to another key than the attempts of
\* the bucket before it.
C8_FreshKeyPerAttempt ==
  \A b \in DOMAIN ups :
    /\ \A j \in 1..Len(ups[b].keys) : \E id \in Ids : ups[b].keys[j] = Key(b.table, b.day, id)
    /\ \A j, k \in 1..Len(ups[b].keys) : j # k => ups[b].keys[j] # ups[b].keys[k]

\* C8 (amended): the random id is drawn once for a bucket: every attempt of
\* the bucket, of which there are at most three, writes to the same key
\* table/day=DAY/<id>.json, and the store holds at most one object of the
\* bucket, under that key.
C8_OneKeyPerBucket ==
  \A b \in DOMAIN ups :
    /\ ups[b].id \in Ids
    /\ Len(ups[b].keys) \in 1..S3Attempts
    /\ \A j \in 1..Len(ups[b].keys) : ups[b].keys[j] = Key(b.table, b.day, ups[b].id)
    /\ \A k \in DOMAIN s3 :
         (\E id \in Ids : k = Key(b.table, b.day, id)) =>
           (k = Key(b.table, b.day, ups[b].id) /\ s3[k] = Body(data, b))

\* C8's case: a bucket whose first attempt failed is stored by a retry.
C8_Witness ==
  \E b \in DOMAIN ups :
    /\ Len(ups[b].keys) >= 2
    /\ ups[b].state = "stored"
    /\ Key(b.table, b.day, ups[b].id) \in DOMAIN s3

\* the groups of all the documents, in the order getRules merges them
RECURSIVE flatten(_)
flatten(files) == IF files = <<>> THEN <<>> ELSE Head(files) \o flatten(Tail(files))

\* the groups, by their place in the merge order, that list the table
listing(t) ==
  { k \in 1..Len(flatten(docs)) :
      \E j \in 1..Len(flatten(docs)[k].tables) : flatten(docs)[k].tables[j] = t }

\* those of them that define the rule name
defining(t, r) == { k \in listing(t) : r \in DOMAIN flatten(docs)[k].rules }

Last(ks) == CHOOSE k \in ks : \A j \in ks : j <= k

AllTables == {Pods, Nodes}
AllRuleNames == {"privileged", "rootfs", "host_network"}

\* C9: for every table and every rule name that a group listing the table
\* defines, the catalog has the name under the table, with the expression of
\* the group merged last among the groups that list the table and define it.
C9_LastMergedWins ==
  pc = "ready" =>
    \A t \in AllTables : \A r \in AllRuleNames :
      defining(t, r) # {} =>
        /\ t \in DOMAIN RULES
        /\ r \in DOMAIN RULES[t]
        /\ RULES[t][r] = flatten(docs)[Last(defining(t, r))].rules[r]

\* C9's case: two groups list one table and give one rule name two
\* expressions, and one of them defines a name the other does not.
C9_Witness ==
  /\ pc = "ready"
  /\ \E t \in AllTables : \E r, q \in AllRuleNames :
       \E j, k \in defining(t, r) :
         /\ j < k
         /\ flatten(docs)[j].rules[r] # flatten(docs)[k].rules[r]
         /\ Cardinality(defining(t, q)) = 1

\* C10 as stated: for rule documents that each have a group, the catalog's
\* keys are the tables some group lists and every key has a rule.
C10_EveryKeyHasRules ==
  (/\ pc = "ready"
   /\ docs # <<>>
   /\ \A f \in 1..Len(docs) : docs[f] # <<>>) =>
    /\ DOMAIN RULES = { t \in AllTables : listing(t) # {} }
    /\ \A t \in DOMAIN RULES : DOMAIN RULES[t] # {}

\* C10 (amended): the catalog's keys are the tables some group lists, and
\* the rule names of a key are those of the groups that list it: a key has a
\* rule exactly when one of these groups defines one.
C10_KeysAndRuleNames ==
  pc = "ready" =>
    /\ DOMAIN RULES = { t \in AllTables : listing(t) # {} }
    /\ \A t \in DOMAIN RULES :
         DOMAIN RULES[t] = UNION { DOMAIN flatten(docs)[k].rules : k \in listing(t) }

\* C10's case: documents that each have a group, a table listed only by
\* groups without rules, and a table with rules.
C10_Witness ==
  /\ pc = "ready"
  /\ docs # <<>>
  /\ \A f \in 1..Len(docs) : docs[f] # <<>>
  /\ \E t, u \in DOMAIN RULES : DOMAIN RULES[t] = {} /\ DOMAIN RULES[u] # {}

\* C11: in the dataset parseResult returns, the calendarTime and the unixTime
\* of every row are those of its record, also when the record's columns have
\* a key named calendarTime or unixTime.
C11_ReservedTimesFromRecord ==
  (logRan /\ err = "none") =>
    \A p \in places :
      /\ data[p.table][p.day][p.idx]["calendarTime"] =
           recordsOf(p.table, p.day)[p.idx].calendarTime
      /\ data[p.table][p.day][p.idx]["unixTime"] =
           recordsOf(p.table, p.day)[p.idx].unixTime

\* the log request went past the test of its node_key
keyAccepted == pc \in {"awaitAll", "responded", "threw", "done"}
                 \/ (pc = "error" /\ err # "Invalid node key")

\* an enroll request is answered with the key
obtainable(key) ==
  \E enroll_secret \in EnrollSecretInputs :
    enrolls(ENROLL_SECRETS, enroll_secret) /\ Str(sha256(enroll_secret.s)) = key

\* C16: for every value of ENROLL_SECRETS, the node_key of a log request that
\* was accepted is one an enroll request can be answered with, parseResult
\* runs for no other, and a log request with a node_key that enroll has
\* handed out is accepted.
C16_AcceptedIffEnrollable ==
  /\ keyAccepted => obtainable(node_key)
  /\ logRan => obtainable(node_key)
  /\ (pc \notin {"init", "ready"} /\ node_key \in issued) => keyAccepted

\* Supporting fact for C16: a node_key that enroll has handed out is
\* accepted by log.
C16_IssuedKeyAccepted ==
  (pc \notin {"init", "ready"} /\ node_key \in issued) => keyAccepted

\* C12: a "result" request whose node_key was accepted returns, when it
\* returns, status 200, and is never an error once its uploads and publishes
\* are started, whatever their outcomes are: the return is not held back.
C12_DeliveryFailureNeverFails ==
  /\ pc = "awaitAll" => ENABLED logReturn
  /\ pc \in {"awaitAll", "responded"} => (err = "none" /\ response # <<ERROR>>)
  /\ pc = "responded" => response = <<OK>>

\* C12's case: log has returned for a batch with uploads and matches, every
\* attempt of every upload and of every publish has failed.
C12_Witness ==
  /\ pc = "responded"
  /\ response = <<OK>>
  /\ DOMAIN ups # {} /\ DOMAIN pubs # {}
  /\ \A b \in DOMAIN ups : ups[b].state = "failed"
  /\ \A m \in DOMAIN pubs : pubs[m].i = SnsAttempts /\ pubs[m].ok = 0

\* C13: whatever has become of the other buckets and matches of the batch,
\* the pending upload of a bucket and the pending publish of a match can go
\* on to settle.
C13_SiblingsIndependent ==
  /\ \A b \in DOMAIN ups : ups[b].state = "inflight" => ENABLED putObjectSettled(b)
  /\ \A m \in DOMAIN pubs : pubs[m].i < SnsAttempts => ENABLED publishSettled(m)

\* C13's case: one bucket has failed on all its attempts and another is
\* stored, one match was never delivered and another was.
C13_Witness ==
  /\ \E b, c \in DOMAIN ups :
       /\ ups[b].state = "failed" /\ Len(ups[b].keys) = S3Attempts
       /\ ups[c].state = "stored" /\ Key(c.table, c.day, ups[c].id) \in DOMAIN s3
  /\ \E m, n \in DOMAIN pubs :
       /\ pubs[m].i = SnsAttempts /\ pubs[m].ok = 0
       /\ pubs[n].ok >= 1 /\ publishRequest(data, n) \in DOMAIN sns

\* C17: when log has returned for a "result" batch, no putObject of a bucket
\* and no publish of a match of the batch is still to settle.
C17_NothingInFlightAtReturn ==
  pc = "responded" =>
    /\ \A b \in DOMAIN ups : ups[b].state # "inflight"
    /\ \A m \in DOMAIN pubs : pubs[m].i = SnsAttempts

\* the UTC calendar date, written YYYYMMDD, of each second of DayTimes
UtcDates ==
  {
    [unixTime |-> -1, day |-> "19691231"],
    [unixTime |-> 0, day |-> "19700101"],
    [unixTime |-> 86399, day |-> "19700101"],
    [unixTime |-> 86400, day |-> "19700102"],
    [unixTime |-> 946684799, day |-> "19991231"],
    [unixTime |-> 946684800, day |-> "20000101"],
    [unixTime |-> 951825600, day |-> "20000229"],
    [unixTime |-> 1582934399, day |-> "20200228"],
    [unixTime |-> 1582934400, day |-> "20200229"],
    [unixTime |-> 1583020799, day |-> "20200229"],
    [unixTime |-> 1583020800, day |-> "20200301"],
    [unixTime |-> 1609459199, day |-> "20201231"],
    [unixTime |-> 1609459200, day |-> "20210101"],
    [unixTime |-> 1620518398, day |-> "20210508"],
    [unixTime |-> 1620518399, day |-> "20210508"],
    [unixTime |-> 1620518400, day |-> "20210509"],
    [unixTime |-> 1633823999, day |-> "20211009"],
    [unixTime |-> 1633824000, day |-> "20211010"]
  }

\* the UTC date of the record's unixTime
utcDate(record) ==
  (CHOOSE e \in UtcDates : e.unixTime = ToNumber(record.unixTime).n).day

\* C14: the row of every record is in the bucket of the UTC date of the
\* record's unixTime, written YYYYMMDD, whatever the record's calendarTime
\* is, and there is no other bucket; of two records one second apart, the
\* days differ exactly when the later second is a UTC midnight.
C14_DayIsUtcDate ==
  (logRan /\ err = "none") =>
    /\ \A k \in 1..Len(body) :
         /\ utcDate(body[k]) \in DOMAIN data[body[k].name]
         /\ \E j \in 1..Len(data[body[k].name][utcDate(body[k])]) :
              data[body[k].name][utcDate(body[k])][j] = buildRow(body[k]).row
    /\ \A t \in DOMAIN data : DOMAIN data[t] = { utcDate(body[k]) : k \in 1..Len(body) }
    /\ \A j, k \in 1..Len(body) :
         ToNumber(body[k].unixTime).n = ToNumber(body[j].unixTime).n + 1 =>
           ((getDay(body[j].unixTime) = getDay(body[k].unixTime)) <=>
              (ToNumber(body[k].unixTime).n % 86400 # 0))

\* C14's case: the batch has a record of 2021-05-08T23:59:59Z and one of the
\* second after it, with the same calendarTime: they are in the buckets
\* 20210508 and 20210509.
C14_Witness ==
  /\ logRan /\ err = "none"
  /\ \E j, k \in 1..Len(body) :
       /\ body[j].unixTime = May8 /\ body[k].unixTime = May9
       /\ body[j].calendarTime = body[k].calendarTime
  /\ DOMAIN data[Pods] = {"20210508", "20210509"}
  /\ Len(data[Pods]["20210508"]) = 1
  /\ Len(data[Pods]["20210509"]) = 1

\* the row has no field x, or an empty one
absent(row) == "x" \notin DOMAIN row \/ row["x"] = Str(<<>>)

\* the row without its field x
without(row) == [k \in DOMAIN row \ {"x"} |-> row[k]]

\* the outcomes the tests of the catalog have on an absent or empty field
outcomes(rule, row) ==
  /\ rule = Op("==", <<Var(<<"x">>), One>>) => apply(rule, row) = Bool(FALSE)
  /\ rule = Op("!=", <<Var(<<"x">>), One>>) => apply(rule, row) = Bool(TRUE)
  /\ rule = Op("<", <<Var(<<"x">>), Str(<<"1", "0", "0", "0", "0">>)>>) =>
       apply(rule, row) = Bool(TRUE)
  /\ rule = Op("in", <<One, Var(<<"x">>)>>) => apply(rule, row) = Bool(FALSE)
  /\ rule = Op("if", <<Missing(<< <<"x">>, <<"x", "y">> >>), Bool(TRUE), Bool(FALSE)>>) =>
       apply(rule, row) = Bool(TRUE)

RECURSIVE booleanValued(_)
booleanValued(logic) ==
  IF "op" \notin DOMAIN logic THEN logic.t = "boolean"
  ELSE \/ logic.op \in {"==", "!=", "<", "in", "!"}
       \/ /\ logic.op \in {"and", "or"}
          /\ \A j \in 1..Len(logic.args) : booleanValued(logic.args[j])
       \/ /\ logic.op = "if"
          /\ Len(logic.args) = 3
          /\ booleanValued(logic.args[2]) /\ booleanValued(logic.args[3])

====
